---- MODULE Spec2Model ----
(***************************************************************************)
(* Maji Ndogo data pipelines: FieldDataProcessor (field_data_processor.py) *)
(* and WeatherDataProcessor (weather_data_processor.py), with the I/O      *)
(* helpers of data_ingestion.py.                                           *)
(*                                                                         *)
(* A DataFrame is a record [cols, rows]: cols is the sequence of column    *)
(* labels, rows the sequence of rows, each a sequence of cells aligned     *)
(* with cols.  A cell is Num(n), Str(s) or NaN.  Python's None is the      *)
(* record None.  Two specifications: Spec drives one FieldDataProcessor,   *)
(* WeatherSpec drives one WeatherDataProcessor.                            *)
(***************************************************************************)
EXTENDS Integers, Sequences, FiniteSets, TLC

VARIABLES
    columns_to_rename,  \* FieldDataProcessor.columns_to_rename: ordered dict, a sequence of <<key, value>>
    values_to_rename,   \* FieldDataProcessor.values_to_rename: dict of crop strings
    db_table,           \* what sql_query selects from the database at db_path
    weather_map_csv,    \* what the CSV at weather_map_data holds
    df,                 \* FieldDataProcessor.df
    engine,             \* FieldDataProcessor.engine (None or "engine")
    pc,                 \* position inside a running FieldDataProcessor.process() call
    stages,             \* stages started by the latest process() call, in order
    result,             \* outcome of the latest completed call: [call, ret, err]
    patterns,           \* WeatherDataProcessor.patterns: ordered dict, a sequence of kinds
    weather_csv,        \* what the CSV at weather_station_data holds
    weather_df,         \* WeatherDataProcessor.weather_df
    wresult             \* outcome of the latest WeatherDataProcessor call: [call, arg, ret, err]

fieldVars == <<columns_to_rename, values_to_rename, db_table, weather_map_csv,
               df, engine, pc, stages, result>>
weatherVars == <<patterns, weather_csv, weather_df, wresult>>
vars == <<columns_to_rename, values_to_rename, db_table, weather_map_csv,
          df, engine, pc, stages, result,
          patterns, weather_csv, weather_df, wresult>>

\* ---------------------------------------------------------------- bounds
MaxRows == 2        \* rows of the queried field table
MaxMetaRows == 2    \* rows of the weather-station metadata CSV
MaxMessages == 3    \* rows of the station message feed

\* ---------------------------------------------------------------- values
None == [none |-> TRUE]
NaN == [nan |-> TRUE]
Num(n) == [num |-> n]
Str(s) == [str |-> s]
IsNum(c) == "num" \in DOMAIN c
IsStr(c) == "str" \in DOMAIN c
NoErr == "none"

Abs(n) == IF n < 0 THEN 0 - n ELSE n

RECURSIVE Concat(_)
Concat(ss) == IF ss = <<>> THEN <<>> ELSE Head(ss) \o Concat(Tail(ss))

SeqsUpTo(S, n) == UNION {[1..k -> S] : k \in 0..n}
Range(s) == {s[i] : i \in DOMAIN s}
Keep(s, ok(_)) == SelectSeq(s, ok)

\* ---------------------------------------------------------------- DataFrame
DataFrame(cols, rows) == [cols |-> cols, rows |-> rows]
HasCol(t, name) == \E i \in DOMAIN t.cols : t.cols[i] = name
ColIndex(t, name) == CHOOSE i \in DOMAIN t.cols : t.cols[i] = name
\* df[name]: the contents of the column labelled name
Column(t, name) == [r \in DOMAIN t.rows |-> t.rows[r][ColIndex(t, name)]]
\* df[name] = values
SetColumn(t, name, values) ==
    [t EXCEPT !.rows = [r \in DOMAIN t.rows |->
        [t.rows[r] EXCEPT ![ColIndex(t, name)] = values[r]]]]
\* DataFrame.rename(columns=m): labels absent from the frame are ignored
Rename(t, m) ==
    [t EXCEPT !.cols = [i \in DOMAIN t.cols |->
        IF t.cols[i] \in DOMAIN m THEN m[t.cols[i]] ELSE t.cols[i]]]
\* DataFrame.drop(columns=name), for a label the frame has
Drop(t, name) ==
    LET keep == {i \in DOMAIN t.cols : t.cols[i] # name}
        idx == Keep([i \in DOMAIN t.cols |-> i], LAMBDA i : i \in keep)
    IN  DataFrame([k \in DOMAIN idx |-> t.cols[idx[k]]],
                  [r \in DOMAIN t.rows |-> [k \in DOMAIN idx |-> t.rows[r][idx[k]]]])
NoDuplicates(s) == \A i, j \in DOMAIN s : s[i] = s[j] => i = j

\* ---------------------------------------------------------------- inputs
TempBase == "__temp_name_for_swap__"
Artifact == "Unnamed: 0"

\* (Field_ID, Elevation, crop name, yield) of the rows a query may return
FieldRows == {
    <<Num(1), Num(0 - 3), Str("cassaval"), Num(4)>>,
    <<Num(2), Num(0), Str("tea"), Num(6)>> }

\* The database holds the crop names under 'Annual_yield' and the yields
\* under 'Crop_type' (the two labels were ingested swapped).
QueryColumns == {
    <<"Field_ID", "Elevation", "Annual_yield", "Crop_type">>,
    <<"Field_ID", "Elevation", "Annual_yield", "Crop_type", TempBase, TempBase \o "_">>,
    <<"Field_ID", "Elevation", "Annual_yield">>,
    <<"Field_ID", "Annual_yield", "Crop_type">> }

QueryCell(label, row) ==
    CASE label = "Field_ID" -> row[1]
      [] label = "Elevation" -> row[2]
      [] label = "Annual_yield" -> row[3]
      [] label = "Crop_type" -> row[4]
      [] label = TempBase -> Str("t")
      [] OTHER -> Str("u")

QueryResults ==
    {DataFrame(cols, [r \in DOMAIN rs |-> [i \in DOMAIN cols |-> QueryCell(cols[i], rs[r])]]) :
        cols \in QueryColumns, rs \in SeqsUpTo(FieldRows, MaxRows)}

RenameDirectives == {
    << <<"Annual_yield", "Crop_type">>, <<"Crop_type", "Annual_yield">> >>,
    << <<TempBase, "Crop_type">> >>,
    << >> }

ValueMaps == { [c \in {"cassaval", "teaa"} |-> IF c = "cassaval" THEN "cassava" ELSE "tea"] }

MetaColumns == {
    <<Artifact, "Field_ID", "Weather_station">>,
    <<"Field_ID", "Weather_station">>,
    <<Artifact, "Weather_station">> }

MetaCell(label, fid, j) ==
    CASE label = "Field_ID" -> Num(fid)
      [] label = Artifact -> Num(j - 1)
      [] OTHER -> Num(10 * j)

MetaTables ==
    {DataFrame(cols, [j \in DOMAIN fids |-> [i \in DOMAIN cols |-> MetaCell(cols[i], fids[j], j)]]) :
        cols \in MetaColumns, fids \in SeqsUpTo({1, 3}, MaxMetaRows)}

\* ---------------------------------------------------------------- data_ingestion
\* create_db_engine then query_data, as ingest_sql_data calls them.  outcome is
\* what the database does: "ok", "connect_error" (create_engine / connect
\* raises) or "query_error" (read_sql_query raises).
create_db_engine(outcome) ==
    IF outcome = "connect_error" THEN [engine |-> None, err |-> "Exception"]
    ELSE [engine |-> [engine |-> TRUE], err |-> NoErr]

query_data(outcome, table) ==
    IF outcome = "query_error" THEN [df |-> None, err |-> "Exception"]
    ELSE IF table.rows = <<>> THEN [df |-> None, err |-> "ValueError"]
    ELSE [df |-> table, err |-> NoErr]

\* read_from_web_CSV: the table at the URL, or the error read_csv raised
read_from_web_CSV(outcome, table) ==
    IF outcome = "fetch_error" THEN [df |-> None, err |-> "Exception"]
    ELSE [df |-> table, err |-> NoErr]

\* ---------------------------------------------------------------- FieldDataProcessor
\* Every stage yields [df, engine, ret, err]: the pipeline's table and engine
\* after the call, the value returned, and the error raised (NoErr if none).
Outcome(t, e, ret, err) == [df |-> t, engine |-> e, ret |-> ret, err |-> err]

ingest_sql_data(t, e, outcome, table) ==
    LET eng == create_db_engine(outcome)
        q == query_data(outcome, table)
    IN  IF eng.err # NoErr THEN Outcome(t, e, None, eng.err)
        ELSE IF q.err # NoErr THEN Outcome(t, eng.engine, None, q.err)
        ELSE Outcome(q.df, eng.engine, q.df, NoErr)

\* A swap that takes the marker as it is, without looking at the columns
TempNameUnchecked(cols, name) == name

\* while temp_name in self.df.columns: temp_name += "_"
RECURSIVE TempName(_, _)
TempName(cols, name) ==
    IF name \in Range(cols) THEN TempName(cols, name \o "_") ELSE name

\* {column1: temp_name, column2: column1}: of two equal keys the later one stays
SwapMapping(column1, column2, temp_name) ==
    (column2 :> column1) @@ (column1 :> temp_name)

rename_columns(t, e, ctr) ==
    IF ctr = <<>> THEN Outcome(t, e, None, "IndexError")
    ELSE IF t = None THEN Outcome(t, e, None, "AttributeError")
    ELSE LET column1 == ctr[1][1]
             column2 == ctr[1][2]
             temp_name == TempName(t.cols, TempBase)
             step1 == Rename(t, SwapMapping(column1, column2, temp_name))
             step2 == Rename(step1, temp_name :> column2)
         IN  Outcome(step2, e, None, NoErr)

\* Series.abs(): NaN stays NaN; a column holding strings raises TypeError
AbsCell(c) == IF IsNum(c) THEN Num(Abs(c.num)) ELSE c
\* self.values_to_rename.get(crop, crop)
GetOrSelf(vtr, c) == IF IsStr(c) /\ c.str \in DOMAIN vtr THEN Str(vtr[c.str]) ELSE c

\* Corrections that act on the columns named by the arguments
apply_corrections_by_argument(t, e, vtr, column_name, abs_column) ==
    IF t = None THEN Outcome(t, e, None, "TypeError")
    ELSE IF ~HasCol(t, abs_column) THEN Outcome(t, e, None, "KeyError")
    ELSE IF \E r \in DOMAIN t.rows : IsStr(Column(t, abs_column)[r])
         THEN Outcome(t, e, None, "TypeError")
    ELSE LET elev == Column(t, abs_column)
             t1 == SetColumn(t, abs_column, [r \in DOMAIN elev |-> AbsCell(elev[r])])
         IN  IF ~HasCol(t1, column_name) THEN Outcome(t1, e, None, "KeyError")
             ELSE LET crop == Column(t1, column_name)
                      t2 == SetColumn(t1, column_name,
                                [r \in DOMAIN crop |-> GetOrSelf(vtr, crop[r])])
                  IN  Outcome(t2, e, None, NoErr)

apply_corrections(t, e, vtr, column_name, abs_column) ==
    IF t = None THEN Outcome(t, e, None, "TypeError")
    ELSE IF ~HasCol(t, "Elevation") THEN Outcome(t, e, None, "KeyError")
    ELSE IF \E r \in DOMAIN t.rows : IsStr(Column(t, "Elevation")[r])
         THEN Outcome(t, e, None, "TypeError")
    ELSE LET elev == Column(t, "Elevation")
             t1 == SetColumn(t, "Elevation", [r \in DOMAIN elev |-> AbsCell(elev[r])])
         IN  IF ~HasCol(t1, "Crop_type") THEN Outcome(t1, e, None, "KeyError")
             ELSE LET crop == Column(t1, "Crop_type")
                      t2 == SetColumn(t1, "Crop_type",
                                [r \in DOMAIN crop |-> GetOrSelf(vtr, crop[r])])
                  IN  Outcome(t2, e, None, NoErr)

\* pd.merge(left, right, on=key, how='left'), for frames that both have key.
\* A label other than key that both frames have gets the suffix _x on the
\* left and _y on the right.  Each left row is followed, in place, by one
\* output row per right row with the same key, or by one row with NaN in the
\* right columns when there is none.
MergeCols(left, right, key) ==
    LET overlap == (Range(left.cols) \cap Range(right.cols)) \ {key}
        rkeep == Drop(right, key).cols
    IN  [i \in DOMAIN left.cols |->
            IF left.cols[i] \in overlap THEN left.cols[i] \o "_x" ELSE left.cols[i]]
        \o [i \in DOMAIN rkeep |->
            IF rkeep[i] \in overlap THEN rkeep[i] \o "_y" ELSE rkeep[i]]

Matches(lrow, left, right, key) ==
    Keep([j \in DOMAIN right.rows |-> j],
         LAMBDA j : right.rows[j][ColIndex(right, key)] = lrow[ColIndex(left, key)])

\* A join that keeps one output row per left row (the first match only)
MergeRowsOfFirstMatch(lrow, left, right, key) ==
    LET rrows == Drop(right, key).rows
        m == Matches(lrow, left, right, key)
        width == Len(right.cols) - 1
    IN  IF m = <<>> THEN << lrow \o [i \in 1..width |-> NaN] >>
        ELSE << lrow \o rrows[m[1]] >>

MergeRowsOf(lrow, left, right, key) ==
    LET rrows == Drop(right, key).rows
        m == Matches(lrow, left, right, key)
        width == Len(right.cols) - 1
    IN  IF m = <<>> THEN << lrow \o [i \in 1..width |-> NaN] >>
        ELSE [k \in DOMAIN m |-> lrow \o rrows[m[k]]]

MergeLeft(left, right, key) ==
    DataFrame(MergeCols(left, right, key),
              Concat([r \in DOMAIN left.rows |-> MergeRowsOf(left.rows[r], left, right, key)]))

weather_station_mapping(t, e, outcome, table) ==
    LET csv == read_from_web_CSV(outcome, table)
    IN  IF csv.err # NoErr THEN Outcome(t, e, None, csv.err)
        ELSE IF t = None THEN Outcome(t, e, None, "TypeError")
        ELSE IF ~HasCol(t, "Field_ID") \/ ~HasCol(csv.df, "Field_ID")
             THEN Outcome(t, e, None, "KeyError")
        \* suffixes that would repeat a label: MergeError (pandas 2)
        ELSE IF ~NoDuplicates(MergeCols(t, csv.df, "Field_ID"))
             THEN Outcome(t, e, None, "MergeError")
        ELSE LET merged == MergeLeft(t, csv.df, "Field_ID")
             IN  IF ~HasCol(merged, Artifact) THEN Outcome(merged, e, None, "KeyError")
                 ELSE LET dropped == Drop(merged, Artifact)
                      IN  Outcome(dropped, e, dropped, NoErr)

\* What process() hands back once its four stages are through: the body has
\* no return statement.
ProcessReturn(t) == None

\* column names a caller may pass to apply_corrections
ColumnArgs == {"Crop_type", "Elevation", "Annual_yield"}
DbOutcomes == {"ok", "connect_error", "query_error"}
CsvOutcomes == {"ok", "fetch_error"}
ProcessOrder == <<"ingest_sql_data", "rename_columns", "apply_corrections",
                  "weather_station_mapping">>
Result(call, ret, err) == [call |-> call, ret |-> ret, err |-> err]

FieldInit ==
    /\ columns_to_rename \in RenameDirectives
    /\ values_to_rename \in ValueMaps
    /\ db_table \in QueryResults
    /\ weather_map_csv \in MetaTables
    /\ df = None
    /\ engine = None
    /\ pc = "idle"
    /\ stages = <<>>
    /\ result = Result("__init__", None, NoErr)

FieldConfigUnchanged ==
    UNCHANGED <<columns_to_rename, values_to_rename, db_table, weather_map_csv>>

\* A stage called on its own by the caller
Standalone(call, out) ==
    /\ pc = "idle"
    /\ df' = out.df
    /\ engine' = out.engine
    /\ result' = Result(call, out.ret, out.err)
    /\ stages' = <<>>
    /\ UNCHANGED pc
    /\ FieldConfigUnchanged
    /\ UNCHANGED weatherVars

IngestSqlData ==
    \E o \in DbOutcomes :
        Standalone("ingest_sql_data", ingest_sql_data(df, engine, o, db_table))

RenameColumns ==
    Standalone("rename_columns", rename_columns(df, engine, columns_to_rename))

ApplyCorrections ==
    \E args \in {<<"Crop_type", "Elevation">>, <<"Annual_yield", "Crop_type">>} :
      LET column_name == args[1]
          abs_column == args[2]
      IN
        Standalone("apply_corrections",
                   apply_corrections(df, engine, values_to_rename, column_name, abs_column))

\* The caller joins the metadata onto a table once: a table that already
\* carries the station column is not joined again.
Unmapped(t) == IF t = None THEN TRUE ELSE ~HasCol(t, "Weather_station")

WeatherStationMapping ==
    \E o \in CsvOutcomes :
        /\ Unmapped(df)
        /\ Standalone("weather_station_mapping",
                      weather_station_mapping(df, engine, o, weather_map_csv))

\* A process() that goes on to the next stage after a stage has failed
ProcessStageNoAbort(at, stage, out, next) ==
    /\ pc = at
    /\ df' = out.df
    /\ engine' = out.engine
    /\ stages' = IF at = "idle" THEN <<stage>> ELSE Append(stages, stage)
    /\ pc' = next
    /\ result' = IF next = "idle"
                   THEN Result("process", ProcessReturn(out.df), out.err)
                   ELSE Result("process:running", None, out.err)
    /\ FieldConfigUnchanged
    /\ UNCHANGED weatherVars

\* One stage of process(): at position `at`, run the stage; an error ends the
\* call, otherwise control moves to `next` ("idle" after the last stage, when
\* process() returns).
ProcessStage(at, stage, out, next) ==
    /\ pc = at
    /\ df' = out.df
    /\ engine' = out.engine
    /\ stages' = IF at = "idle" THEN <<stage>> ELSE Append(stages, stage)
    /\ IF out.err # NoErr
         THEN pc' = "idle" /\ result' = Result("process", None, out.err)
         ELSE /\ pc' = next
              /\ result' = IF next = "idle"
                             THEN Result("process", ProcessReturn(out.df), NoErr)
                             ELSE Result("process:running", None, NoErr)
    /\ FieldConfigUnchanged
    /\ UNCHANGED weatherVars

ProcessIngest ==
    \E o \in DbOutcomes :
        ProcessStage("idle", "ingest_sql_data",
                     ingest_sql_data(df, engine, o, db_table), "rename_columns")

ProcessRename ==
    ProcessStage("rename_columns", "rename_columns",
                 rename_columns(df, engine, columns_to_rename), "apply_corrections")

ProcessCorrect ==
    ProcessStage("apply_corrections", "apply_corrections",
                 apply_corrections(df, engine, values_to_rename, "Crop_type", "Elevation"),
                 "weather_station_mapping")

ProcessMap ==
    \E o \in CsvOutcomes :
        ProcessStage("weather_station_mapping", "weather_station_mapping",
                     weather_station_mapping(df, engine, o, weather_map_csv), "idle")

FieldNext ==
    \/ IngestSqlData
    \/ RenameColumns
    \/ ApplyCorrections
    \/ WeatherStationMapping
    \/ ProcessIngest
    \/ ProcessRename
    \/ ProcessCorrect
    \/ ProcessMap

\* ---------------------------------------------------------------- WeatherDataProcessor
\* A float is the exact fraction [n, d], d > 0, in lowest terms.  A captured
\* text is a sequence of one-character strings.
RECURSIVE Gcd(_, _)
Gcd(a, b) == IF b = 0 THEN a ELSE Gcd(b, a % b)
Float(n, d) == LET g == Gcd(n, d) IN IF g = 0 THEN [n |-> 0, d |-> 1] ELSE [n |-> n \div g, d |-> d \div g]
IsFloat(c) == "d" \in DOMAIN c

Digits == {"0", "1", "2", "3", "4", "5", "6", "7", "8", "9"}
DigitValue(ch) ==
    CASE ch = "0" -> 0 [] ch = "1" -> 1 [] ch = "2" -> 2 [] ch = "3" -> 3 [] ch = "4" -> 4
      [] ch = "5" -> 5 [] ch = "6" -> 6 [] ch = "7" -> 7 [] ch = "8" -> 8 [] OTHER -> 9

RECURSIVE DigitsToInt(_)
DigitsToInt(ds) ==
    IF ds = <<>> THEN 0
    ELSE 10 * DigitsToInt(SubSeq(ds, 1, Len(ds) - 1)) + DigitValue(ds[Len(ds)])

RECURSIVE Pow10(_)
Pow10(k) == IF k = 0 THEN 1 ELSE 10 * Pow10(k - 1)

\* float(text) for a text of digits and dots (what the rules' groups such as
\* ([\d.]+) and (\d+) capture): digits with at most one dot and at least one
\* digit convert; anything else raises ValueError.
FloatParses(text) ==
    /\ \A i \in DOMAIN text : text[i] \in Digits \cup {"."}
    /\ Cardinality({i \in DOMAIN text : text[i] = "."}) <= 1
    /\ \E i \in DOMAIN text : text[i] \in Digits

ParseFloat(text) ==
    LET dot == {i \in DOMAIN text : text[i] = "."}
        frac == IF dot = {} THEN 0 ELSE Len(text) - (CHOOSE i \in dot : TRUE)
        ds == Keep(text, LAMBDA ch : ch \in Digits)
    IN  Float(DigitsToInt(ds), Pow10(frac))

Kinds == {"Rainfall", "Temperature"}
NoMatch == None
Groups(gs) == [groups |-> gs]
Text(chars) == [chars |-> chars]

\* re.search(self.patterns[kind], message): a message is given by what each
\* rule's pattern finds in it, NoMatch or the match's groups
Search(kind, message) == message[kind]

Message(rain, temp) == [Rainfall |-> rain, Temperature |-> temp]

Messages == {
    Message(NoMatch, Groups(<<Text(<<"1", "0">>)>>)),
    Message(NoMatch, Groups(<<Text(<<"2", "0">>)>>)),
    Message(NoMatch, Groups(<<Text(<<"3", "0">>)>>)),
    Message(Groups(<<Text(<<"2", ".", "5">>)>>), Groups(<<Text(<<"7">>)>>)),
    Message(Groups(<<None, Text(<<"6", "0">>)>>), NoMatch),
    Message(Groups(<<Text(<<".">>)>>), NoMatch),
    Message(NoMatch, Groups(<<None>>)),
    Message(NoMatch, NoMatch) }

Extracted(kind, value, err) == [Measurement |-> kind, Value |-> value, err |-> err]

\* An extraction in which the last matching rule decides
RECURSIVE extract_measurement_last(_, _)
extract_measurement_last(pats, message) ==
    IF pats = <<>> THEN Extracted(None, None, NoErr)
    ELSE LET key == pats[Len(pats)]
             match == Search(key, message)
         IN  IF match = NoMatch
               THEN extract_measurement_last(SubSeq(pats, 1, Len(pats) - 1), message)
             ELSE LET present == Keep(match.groups, LAMBDA x : x # None)
                  IN  IF present = <<>> THEN Extracted(None, None, "StopIteration")
                      ELSE IF ~FloatParses(present[1].chars)
                           THEN Extracted(None, None, "ValueError")
                      ELSE Extracted(Str(key), ParseFloat(present[1].chars), NoErr)

\* for key, pattern in self.patterns.items(): the first rule that matches
\* decides; float(next(x for x in match.groups() if x is not None))
RECURSIVE extract_measurement(_, _)
extract_measurement(pats, message) ==
    IF pats = <<>> THEN Extracted(None, None, NoErr)
    ELSE LET key == Head(pats)
             match == Search(key, message)
         IN  IF match = NoMatch THEN extract_measurement(Tail(pats), message)
             ELSE LET present == Keep(match.groups, LAMBDA x : x # None)
                  IN  IF present = <<>> THEN Extracted(None, None, "StopIteration")
                      ELSE IF ~FloatParses(present[1].chars)
                           THEN Extracted(None, None, "ValueError")
                      ELSE Extracted(Str(key), ParseFloat(present[1].chars), NoErr)

WOutcome(t, ret, err) == [weather_df |-> t, ret |-> ret, err |-> err]

\* WeatherDataProcessor.weather_station_mapping
fetch_weather(t, outcome, table) ==
    LET csv == read_from_web_CSV(outcome, table)
    IN  IF csv.err # NoErr THEN WOutcome(t, None, csv.err)
        ELSE WOutcome(csv.df, None, NoErr)

\* df[name] = values, adding the column when the frame has none of that name
AssignColumn(t, name, values) ==
    IF HasCol(t, name) THEN SetColumn(t, name, values)
    ELSE DataFrame(Append(t.cols, name),
                   [r \in DOMAIN t.rows |-> Append(t.rows[r], values[r])])

\* An uninitialized table that makes the call fail, as the docstrings announce
raise_uninitialized(t) == WOutcome(t, None, "ValueError")

\* else: self.logger.warning(...); the call then returns self.weather_df
\* (process_messages) or None (calculate_means), both None here
skip_uninitialized(t) == WOutcome(t, t, NoErr)

process_messages(t, pats) ==
    IF t = None THEN skip_uninitialized(t)
    ELSE IF ~HasCol(t, "Message") THEN WOutcome(t, None, "KeyError")
    ELSE LET msgs == Column(t, "Message")
             res == [r \in DOMAIN msgs |-> extract_measurement(pats, msgs[r].msg)]
             bad == {r \in DOMAIN res : res[r].err # NoErr}
         IN  IF bad # {}
               THEN WOutcome(t, None, res[CHOOSE r \in bad : \A q \in bad : r <= q].err)
             ELSE IF res = <<>> THEN WOutcome(t, None, "ValueError")
             ELSE LET anyFloat == \E r \in DOMAIN res : res[r].Value # None
                      t1 == AssignColumn(t, "Measurement",
                                [r \in DOMAIN res |-> res[r].Measurement])
                      t2 == AssignColumn(t1, "Value",
                                [r \in DOMAIN res |->
                                    IF res[r].Value = None /\ anyFloat THEN NaN
                                    ELSE res[r].Value])
                  IN  WOutcome(t2, t2, NoErr)

\* sum of a sequence of floats
RECURSIVE FloatSum(_)
FloatSum(vs) ==
    IF vs = <<>> THEN Float(0, 1)
    ELSE LET rest == FloatSum(Tail(vs))
             v == Head(vs)
         IN  Float(v.n * rest.d + rest.n * v.d, v.d * rest.d)

\* A mean that forgets to divide by the number of values
FloatMeanUndivided(vs) == FloatSum(vs)

FloatMean(vs) == LET sum == FloatSum(vs) IN Float(sum.n, sum.d * Len(vs))

\* groupby(['Weather_station_ID', 'Measurement'])['Value']: rows whose key is
\* null belong to no group; mean() skips NaN values
GroupValues(t, station, kind) ==
    LET rows == Keep([r \in DOMAIN t.rows |-> r],
                     LAMBDA r : /\ Column(t, "Weather_station_ID")[r] = Str(station)
                                /\ Column(t, "Measurement")[r] = Str(kind)
                                /\ IsFloat(Column(t, "Value")[r]))
    IN  [k \in DOMAIN rows |-> Column(t, "Value")[rows[k]]]

GroupKeys(t) ==
    {<<Column(t, "Weather_station_ID")[r].str, Column(t, "Measurement")[r].str>> :
        r \in {q \in DOMAIN t.rows : /\ IsStr(Column(t, "Weather_station_ID")[q])
                                     /\ IsStr(Column(t, "Measurement")[q])}}

\* means.unstack(): one row per station and one column per kind that occur in
\* a group; a cell with no group is NaN
Unstack(t) ==
    LET keys == GroupKeys(t)
        stations == {k[1] : k \in keys}
        kinds == {k[2] : k \in keys}
    IN  [index |-> stations, columns |-> kinds,
         cell |-> [k \in stations \X kinds |->
                     IF k \in keys /\ GroupValues(t, k[1], k[2]) # <<>>
                       THEN FloatMean(GroupValues(t, k[1], k[2]))
                       ELSE NaN]]

\* object_mean: what the installed pandas does for the mean of a Value column
\* that holds no number at all (dtype object): "empty" (an empty result) or
\* "DataError" (No numeric types to aggregate)
\* An aggregation that treats a table without the extracted columns like an
\* uninitialized one
calculate_means_lenient(t, object_mean) ==
    IF t = None THEN skip_uninitialized(t)
    ELSE IF ~HasCol(t, "Weather_station_ID") \/ ~HasCol(t, "Measurement") \/ ~HasCol(t, "Value")
         THEN WOutcome(t, None, NoErr)
    ELSE IF (\A r \in DOMAIN t.rows : ~IsFloat(Column(t, "Value")[r])) /\ object_mean = "DataError"
         THEN WOutcome(t, None, "DataError")
    ELSE WOutcome(t, Unstack(t), NoErr)

calculate_means(t, object_mean) ==
    IF t = None THEN skip_uninitialized(t)
    ELSE IF ~HasCol(t, "Weather_station_ID") \/ ~HasCol(t, "Measurement") \/ ~HasCol(t, "Value")
         THEN WOutcome(t, None, "KeyError")
    ELSE IF (\A r \in DOMAIN t.rows : ~IsFloat(Column(t, "Value")[r])) /\ object_mean = "DataError"
         THEN WOutcome(t, None, "DataError")
    ELSE WOutcome(t, Unstack(t), NoErr)

\* WeatherDataProcessor.process: fetch, then process_messages; returns nothing
process_weather(t, pats, outcome, table) ==
    LET fetched == fetch_weather(t, outcome, table)
        done == process_messages(fetched.weather_df, pats)
    IN  IF fetched.err # NoErr THEN fetched
        ELSE WOutcome(done.weather_df, None, done.err)

\* The weather pipeline is not constructed in Spec
WeatherIdle ==
    /\ patterns = <<>>
    /\ weather_csv = None
    /\ weather_df = None
    /\ wresult = None

Init == FieldInit /\ WeatherIdle
Next == FieldNext
Spec == Init /\ [][Next]_vars


\* ================================================================ properties of FieldDataProcessor (Spec)
\* the step ran the named stage to its end without an error, called on its
\* own or as a stage of process()
StageRan(stage) ==
    \/ pc = "idle" /\ result'.call = stage /\ result'.err = NoErr
    \/ pc = stage /\ pc # "idle" /\ result'.err = NoErr

ColumnA == columns_to_rename[1][1]
ColumnB == columns_to_rename[1][2]

\* a step of rename_columns on a table that has both columns of the directive
C1_SwapStep ==
    (StageRan("rename_columns") /\ HasCol(df, ColumnA) /\ HasCol(df, ColumnB)) =>
        /\ Len(df'.cols) = Len(df.cols)
        /\ NoDuplicates(df'.cols)
        /\ HasCol(df', ColumnA) /\ HasCol(df', ColumnB)
        /\ Column(df', ColumnA) = Column(df, ColumnB)
        /\ Column(df', ColumnB) = Column(df, ColumnA)
        /\ \A i \in DOMAIN df.cols :
              df.cols[i] \notin {ColumnA, ColumnB} =>
                 /\ df'.cols[i] = df.cols[i]
                 /\ Column(df', df.cols[i]) = Column(df, df.cols[i])
\* C1: rename_columns on a table that has both columns of the directive
\* exchanges the contents of the two labels and leaves every other column's
\* label, place and contents alone, whatever temporary-marker columns
\* ('__temp_name_for_swap__' with or without further underscores) the table
\* already has.
C1_ColumnSwap == [][C1_SwapStep]_vars

\* a swapped table that carries the marker and the marker plus an underscore
C1_Witness ==
    /\ result.call = "rename_columns" /\ result.err = NoErr
    /\ columns_to_rename # <<>>
    /\ ColumnA = "Annual_yield" /\ ColumnB = "Crop_type"
    /\ HasCol(df, TempBase) /\ HasCol(df, TempBase \o "_")
    /\ Len(df.rows) = MaxRows
    /\ Column(df, "Crop_type") = Column(db_table, "Annual_yield")
    /\ Column(df, "Annual_yield") = Column(db_table, "Crop_type")
    /\ Column(df, TempBase) = Column(db_table, TempBase)

\* a step of rename_columns: it fails when a name is absent, and brings in no label
C2_RenameStep ==
    /\ (/\ (pc = "idle" /\ result'.call = "rename_columns") \/ pc = "rename_columns"
        /\ df # None /\ columns_to_rename # <<>>
        /\ ~HasCol(df, ColumnA) \/ ~HasCol(df, ColumnB))
       => result'.err # NoErr
    /\ (StageRan("rename_columns") /\ df # None)
       => Range(df'.cols) \subseteq Range(df.cols)
\* C2: rename_columns raises whenever a name of the directive is absent from
\* the table, and a rename never brings in a label the table did not have.
C2_FailsOnAbsentName == [][C2_RenameStep]_vars

\* number of metadata rows that share the Field_ID of a field row
MatchCount(frow, t, csv) ==
    Cardinality({j \in DOMAIN csv.rows :
        csv.rows[j][ColIndex(csv, "Field_ID")] = frow[ColIndex(t, "Field_ID")]})

RECURSIVE JoinedRowCount(_, _, _)
JoinedRowCount(rows, t, csv) ==
    IF rows = <<>> THEN 0
    ELSE (IF MatchCount(Head(rows), t, csv) = 0 THEN 1 ELSE MatchCount(Head(rows), t, csv))
         + JoinedRowCount(Tail(rows), t, csv)

\* a finished join has as many rows as the field table had
C3_RowCountStep ==
    StageRan("weather_station_mapping") => Len(df'.rows) = Len(df.rows)
\* C3 as stated: the joined table of weather_station_mapping has as many rows
\* as the field table had, whatever number of metadata rows share a Field_ID
\* with a field row.
C3_RowCountPreserved == [][C3_RowCountStep]_vars

\* a finished join: one row per match, one row for a field row without a match
C3_LeftJoinStep ==
    StageRan("weather_station_mapping") =>
        /\ Len(df'.rows) = JoinedRowCount(df.rows, df, weather_map_csv)
        /\ Len(df'.rows) >= Len(df.rows)
        /\ (Len(df'.rows) = Len(df.rows)) <=>
              (\A r \in DOMAIN df.rows : MatchCount(df.rows[r], df, weather_map_csv) <= 1)
        /\ \A r \in DOMAIN df.rows :
              MatchCount(df.rows[r], df, weather_map_csv) = 0 =>
                 \E q \in DOMAIN df'.rows :
                    /\ SubSeq(df'.rows[q], 1, Len(df.cols)) = df.rows[r]
                    /\ \A i \in (Len(df.cols) + 1)..Len(df'.cols) : df'.rows[q][i] = NaN
\* C3 as amended: the joined table of weather_station_mapping has one row per
\* field row and matching metadata row, and one row for a field row without
\* a match, so its row count is that of the field table exactly when no field
\* row has more than one match; a field row without a match keeps its values
\* and has NaN in the metadata columns.
C3_LeftJoinRows == [][C3_LeftJoinStep]_vars

\* a joined table with more rows than the field table, one of them unmatched
C3_Witness ==
    /\ result.call = "weather_station_mapping" /\ result.err = NoErr
    /\ Len(df.rows) > Len(db_table.rows)
    /\ \E q \in DOMAIN df.rows : Column(df, "Weather_station")[q] = NaN

\* C7: a process() whose four stages succeed returns the joined table that is
\* stored on the pipeline.
C7_ProcessReturnsTable ==
    (pc = "idle" /\ result.call = "process" /\ result.err = NoErr) =>
        (result.ret = df /\ df # None)

\* the tables the stages of process() leave behind, from the queried table on
AfterRename == rename_columns(db_table, engine, columns_to_rename)
AfterCorrect == apply_corrections(AfterRename.df, engine, values_to_rename, "Crop_type", "Elevation")
AfterMap == weather_station_mapping(AfterCorrect.df, engine, "ok", weather_map_csv)

\* C8: process() starts its stages once each in the order ingest,
\* rename_columns, apply_corrections, weather_station_mapping; the first
\* failing stage ends the call with that stage's error, nothing runs after
\* it, and the table keeps what the stages before it did.
C8_ProcessInOrder ==
    /\ Len(stages) <= Len(ProcessOrder)
    /\ \A i \in DOMAIN stages : stages[i] = ProcessOrder[i]
    /\ pc # "idle" => (stages # <<>> /\ pc = ProcessOrder[Len(stages) + 1])
    /\ (pc = "idle" /\ result.call = "process" /\ result.err = NoErr) =>
          (stages = ProcessOrder /\ df = AfterMap.df)
    /\ (pc = "idle" /\ result.call = "process" /\ result.err # NoErr) =>
          /\ stages # <<>>
          /\ Len(stages) = 1 =>
                /\ result.err \in {"Exception", "ValueError"}
                /\ result.err = "ValueError" => db_table.rows = <<>>
          /\ Len(stages) = 2 => (df = db_table /\ result.err = AfterRename.err)
          /\ Len(stages) = 3 =>
                /\ df = AfterCorrect.df
                /\ result.err = AfterCorrect.err
                /\ Range(df.cols) = Range(AfterRename.df.cols)
          /\ Len(stages) = 4 =>
                /\ \/ df = AfterCorrect.df /\ result.err = "Exception"
                   \/ df = AfterMap.df /\ result.err = AfterMap.err
                /\ Len(df.rows) >= Len(db_table.rows)

\* process() ended in its last stage with the corrected table still in place
C8_Witness ==
    /\ pc = "idle" /\ result.call = "process" /\ result.err # NoErr
    /\ stages = ProcessOrder
    /\ df = AfterCorrect.df
    /\ HasCol(df, "Crop_type") /\ HasCol(df, "Elevation")
    /\ \E r \in DOMAIN df.rows : Column(df, "Crop_type")[r] = Str("cassava")

\* a step of apply_corrections, compared with what any arguments would give
C9_CorrectionsStep ==
    StageRan("apply_corrections") =>
          /\ HasCol(df, "Elevation") /\ HasCol(df, "Crop_type")
          /\ df'.cols = df.cols
          /\ Len(df'.rows) = Len(df.rows)
          /\ \A r \in DOMAIN df.rows :
                LET old == Column(df, "Elevation")[r]
                    new == Column(df', "Elevation")[r]
                    crop == Column(df, "Crop_type")[r]
                IN  /\ IsNum(old) => (IsNum(new) /\ new.num >= 0 /\ new.num \in {old.num, 0 - old.num})
                    /\ ~IsNum(old) => new = old
                    /\ Column(df', "Crop_type")[r] =
                          IF IsStr(crop) /\ crop.str \in DOMAIN values_to_rename
                            THEN Str(values_to_rename[crop.str]) ELSE crop
          /\ \A i \in DOMAIN df.cols :
                df.cols[i] \notin {"Elevation", "Crop_type"} =>
                   Column(df', df.cols[i]) = Column(df, df.cols[i])
          /\ Column(apply_corrections(df', engine, values_to_rename, "Crop_type", "Elevation").df,
                    "Elevation") = Column(df', "Elevation")
          /\ \A column_name, abs_column \in ColumnArgs :
                apply_corrections(df, engine, values_to_rename, column_name, abs_column).df = df'
MsgCell(m) == [msg |-> m]

\* the (station, message) rows a feed may hold
StationMessages == {
    <<Str("A"), MsgCell(Message(NoMatch, Groups(<<Text(<<"1", "0">>)>>)))>>,
    <<Str("A"), MsgCell(Message(NoMatch, Groups(<<Text(<<"2", "0">>)>>)))>>,
    <<Str("A"), MsgCell(Message(NoMatch, Groups(<<Text(<<"3", "0">>)>>)))>>,
    <<Str("B"), MsgCell(Message(Groups(<<Text(<<"2", ".", "5">>)>>), Groups(<<Text(<<"7">>)>>)))>>,
    <<Str("B"), MsgCell(Message(Groups(<<Text(<<".">>)>>), NoMatch))>>,
    <<Str("A"), MsgCell(Message(NoMatch, NoMatch))>> }

WeatherFeeds ==
    {DataFrame(<<"Weather_station_ID", "Message">>, rows) :
        rows \in SeqsUpTo(StationMessages, MaxMessages)}

PatternSets == {<<"Temperature", "Rainfall">>, <<"Rainfall", "Temperature">>, <<"Temperature">>}

WResult(call, arg, out) == [call |-> call, arg |-> arg, ret |-> out.ret, err |-> out.err]

WeatherInit ==
    /\ patterns \in PatternSets
    /\ weather_csv \in WeatherFeeds
    /\ weather_df = None
    /\ wresult = [call |-> "__init__", arg |-> None, ret |-> None, err |-> NoErr]

FieldIdle ==
    /\ columns_to_rename = <<>>
    /\ values_to_rename = <<>>
    /\ db_table = None
    /\ weather_map_csv = None
    /\ df = None
    /\ engine = None
    /\ pc = "idle"
    /\ stages = <<>>
    /\ result = None

WCall(call, arg, out) ==
    /\ weather_df' = out.weather_df
    /\ wresult' = WResult(call, arg, out)
    /\ UNCHANGED <<patterns, weather_csv>>
    /\ UNCHANGED fieldVars

FetchWeather ==
    \E o \in CsvOutcomes :
        WCall("weather_station_mapping", None, fetch_weather(weather_df, o, weather_csv))

ExtractMeasurement ==
    \E m \in Messages :
        LET e == extract_measurement(patterns, m)
        IN  WCall("extract_measurement", MsgCell(m),
                  WOutcome(weather_df, [Measurement |-> e.Measurement, Value |-> e.Value], e.err))

ProcessMessages ==
    WCall("process_messages", None, process_messages(weather_df, patterns))

CalculateMeans ==
    \E object_mean \in {"empty", "DataError"} :
        WCall("calculate_means", None, calculate_means(weather_df, object_mean))

ProcessWeather ==
    \E o \in CsvOutcomes :
        WCall("process", None, process_weather(weather_df, patterns, o, weather_csv))

WeatherNext ==
    \/ FetchWeather
    \/ ExtractMeasurement
    \/ ProcessMessages
    \/ CalculateMeans
    \/ ProcessWeather

WInit == WeatherInit /\ FieldIdle
WeatherSpec == WInit /\ [][WeatherNext]_vars

\* ================================================================ properties of WeatherDataProcessor (WeatherSpec)
\* positions of the rules whose pattern matches the message
MatchingRules(message) == {i \in DOMAIN patterns : Search(patterns[i], message) # NoMatch}
FirstRule(message) == CHOOSE i \in MatchingRules(message) : \A j \in MatchingRules(message) : i <= j
\* the text float() is given: the first group of the match that took part
Capture(match) == Keep(match.groups, LAMBDA x : x # None)
BothMatch == Message(Groups(<<Text(<<"2", ".", "5">>)>>), Groups(<<Text(<<"7">>)>>))

\* C4: extract_measurement returns (None, None) for a message no rule matches
\* and otherwise the kind of the earliest matching rule with the number its
\* capture spells (one rule matching being the case of a single candidate);
\* a capture that spells no number raises instead.
C4_FirstMatchWins ==
    wresult.call = "extract_measurement" =>
        LET m == wresult.arg.msg
        IN  /\ MatchingRules(m) = {} =>
                 (wresult.err = NoErr /\ wresult.ret.Measurement = None /\ wresult.ret.Value = None)
            /\ MatchingRules(m) # {} =>
                 LET key == patterns[FirstRule(m)]
                     cap == Capture(Search(key, m))
                 IN  IF cap # <<>> /\ FloatParses(cap[1].chars)
                       THEN /\ wresult.err = NoErr
                            /\ wresult.ret.Measurement = Str(key)
                            /\ wresult.ret.Value = ParseFloat(cap[1].chars)
                       ELSE wresult.err # NoErr
            /\ (m = BothMatch /\ patterns[1] = "Rainfall") =>
                 wresult.ret = [Measurement |-> Str("Rainfall"), Value |-> [n |-> 5, d |-> 2]]
            /\ (m = BothMatch /\ patterns[1] = "Temperature") =>
                 wresult.ret = [Measurement |-> Str("Temperature"), Value |-> [n |-> 7, d |-> 1]]

\* a message both rules match, decided by the rule that comes first
C4_Witness ==
    /\ wresult.call = "extract_measurement" /\ wresult.err = NoErr
    /\ wresult.arg.msg = BothMatch
    /\ patterns = <<"Rainfall", "Temperature">>
    /\ wresult.ret = [Measurement |-> Str("Rainfall"), Value |-> [n |-> 5, d |-> 2]]

Stations == {"A", "B"}
Contributing(t, station, kind) ==
    {r \in DOMAIN t.rows : /\ Column(t, "Weather_station_ID")[r] = Str(station)
                           /\ Column(t, "Measurement")[r] = Str(kind)}
RECURSIVE SumOver(_, _, _)
\* sum over the rows in rs of Value * scale, scale a multiple of every denominator
SumOver(t, rs, scale) ==
    IF rs = {} THEN 0
    ELSE LET r == CHOOSE x \in rs : TRUE
             v == Column(t, "Value")[r]
         IN  v.n * (scale \div v.d) + SumOver(t, rs \ {r}, scale)
RECURSIVE Denominators(_, _)
Denominators(t, rs) ==
    IF rs = {} THEN 1
    ELSE LET r == CHOOSE x \in rs : TRUE
         IN  Column(t, "Value")[r].d * Denominators(t, rs \ {r})
Populated(agg, station, kind) ==
    /\ station \in agg.index /\ kind \in agg.columns
    /\ agg.cell[<<station, kind>>] # NaN
ThreeReadings ==
    <<Message(NoMatch, Groups(<<Text(<<"1", "0">>)>>)),
      Message(NoMatch, Groups(<<Text(<<"2", "0">>)>>)),
      Message(NoMatch, Groups(<<Text(<<"3", "0">>)>>))>>

\* C5: in the table calculate_means returns for a processed table, the cell of
\* (station, kind) is the arithmetic mean of the Value of the rows with that
\* station and that Measurement (20 for 10, 20, 30), and a pair without such a
\* row, one of rows that matched no rule included, is no populated cell.
C5_CellIsMean ==
    (wresult.call = "calculate_means" /\ wresult.err = NoErr /\ weather_df # None) =>
        /\ \A station \in Stations, kind \in Kinds :
              LET rs == Contributing(weather_df, station, kind)
                  scale == Denominators(weather_df, rs)
              IN  IF rs = {} THEN ~Populated(wresult.ret, station, kind)
                  ELSE /\ Populated(wresult.ret, station, kind)
                       /\ LET c == wresult.ret.cell[<<station, kind>>]
                          IN  c.n * Cardinality(rs) * scale = SumOver(weather_df, rs, scale) * c.d
        /\ wresult.ret.index \subseteq Stations /\ wresult.ret.columns \subseteq Kinds
        /\ ([r \in DOMAIN weather_df.rows |-> Column(weather_df, "Message")[r].msg] = ThreeReadings
            /\ Column(weather_df, "Weather_station_ID") = [r \in 1..3 |-> Str("A")])
           => wresult.ret.cell[<<"A", "Temperature">>] = [n |-> 20, d |-> 1]

\* the mean of 10, 20, 30 at station A, beside a row that matched no rule
C5_Witness ==
    /\ wresult.call = "calculate_means" /\ wresult.err = NoErr /\ weather_df # None
    /\ Len(weather_df.rows) = 3
    /\ Cardinality(Contributing(weather_df, "A", "Temperature")) = 2
    /\ \E r \in DOMAIN weather_df.rows : Column(weather_df, "Measurement")[r] = None
    /\ wresult.ret.cell[<<"A", "Temperature">>] = [n |-> 15, d |-> 1]
    /\ ~Populated(wresult.ret, "B", "Temperature")

\* a step of process_messages or calculate_means taken with no table loaded
C6_SoftStep ==
    (weather_df = None /\ wresult'.call \in {"process_messages", "calculate_means"}) =>
        /\ wresult'.err = NoErr
        /\ wresult'.ret = None
        /\ weather_df' = None
        /\ UNCHANGED <<patterns, weather_csv>>
C10_NeverRaises ==
    wresult.call = "calculate_means" =>
        /\ wresult.err = NoErr
        /\ weather_df = None => wresult.ret = None
        /\ weather_df # None => (wresult.ret # None /\ "cell" \in DOMAIN wresult.ret)

\* C10 as amended: calculate_means returns None while no fetch has succeeded;
\* on a loaded table without a Measurement column (the table of a fetch that
\* no successful process_messages followed) it raises KeyError; on a
\* processed table with at least one extracted value it returns an aggregate
\* table; it never changes the table.
C10_RaisesUnlessProcessed ==
    /\ wresult.call = "calculate_means" =>
          /\ weather_df = None => (wresult.err = NoErr /\ wresult.ret = None)
          /\ (weather_df # None /\ ~HasCol(weather_df, "Measurement")) =>
                (wresult.err = "KeyError" /\ wresult.ret = None)
          /\ (/\ weather_df # None /\ HasCol(weather_df, "Measurement")
              /\ \E r \in DOMAIN weather_df.rows : IsFloat(Column(weather_df, "Value")[r])) =>
                (wresult.err = NoErr /\ "cell" \in DOMAIN wresult.ret)
    /\ (weather_df # None /\ ~HasCol(weather_df, "Measurement")) => weather_df = weather_csv
    /\ (weather_df # None /\ HasCol(weather_df, "Measurement")) =>
          weather_df = process_messages(weather_csv, patterns).weather_df

\* calculate_means called on a table that was fetched and not processed
C10_Witness ==
    /\ wresult.call = "calculate_means" /\ wresult.err = "KeyError"
    /\ weather_df # None /\ weather_df.rows # <<>>
    /\ ~HasCol(weather_df, "Measurement")

====
